---------------------------- MODULE Spec2Model ----------------------------
(***************************************************************************)
(* A model of openapi_spec_validator/validators.py: the $ref-aware         *)
(* Dereferencer and the tree of validators (SpecValidator, PathsValidator, *)
(* PathValidator, PathItemValidator, OperationValidator,                   *)
(* ParametersValidator, ParameterValidator, SchemaValidator,               *)
(* ValueValidator, ComponentsValidator, SchemasValidator).                 *)
(*                                                                         *)
(* Every validator method is a Python generator.  A generator, and every   *)
(* call of Dereferencer.dereference, is a frame of `stack`; the frame on   *)
(* top is the one that runs.  One action is the code of one method between *)
(* two points where control leaves it: a call of dereference, the start of *)
(* a child generator, a yield.  An exception (`exc`) unwinds the stack one *)
(* frame per step.                                                         *)
(***************************************************************************)
EXTENDS Naturals, Sequences, FiniteSets, TLC

VARIABLES
    arg,        \* the arguments of the top-level call in progress
    mode,       \* the top-level call: "dereference", "iter_errors", "validate"
    store,      \* what the resolver finds: absolute url <<doc, fragment>> -> node
    stack,      \* the frames of the running generators and dereference calls
    ret,        \* <<v>> when a dereference call has just returned v, else <<>>
    scopes,     \* RefResolver._scopes_stack
    seen_ids,   \* the operation-id registry of the PathsValidator of this pass
    errors,     \* the Errors the top-level generator has yielded to its consumer
    status,     \* "running", "returned", "raised" (validate raised an Error), "failed"
    exc,        \* the exception in flight or raised to the caller, or "none"
    raised,     \* <<e>> when validate raised the Error e, else <<>>
    visited,    \* history: the operations of this pass whose operationId was read
    last        \* history: the last iter_errors pass that ended, or NoPass

vars == <<arg, mode, store, stack, ret, scopes, seen_ids, errors, status, exc,
          raised, visited, last>>

(***************************************************************************)
(* Python values.  Every value carries its type, so that isinstance and    *)
(* `is None` can be asked of any of them.  A dict keeps its insertion      *)
(* order: it is the sequence of its (key, value) items.  The string of a   *)
(* `$ref` is UrlStr(doc, fragment), "doc#/fragment"; doc "" is a reference *)
(* relative to the resolution scope.                                       *)
(***************************************************************************)
None == [ty |-> "None"]
Str(s) == [ty |-> "str", s |-> s]
Bool(b) == [ty |-> "bool", b |-> b]
Int(n) == [ty |-> "int", n |-> n]
List(l) == [ty |-> "list", l |-> l]
KV(k, v) == [k |-> k, v |-> v]
Dict(items) == [ty |-> "dict", items |-> items]
EmptyDict == Dict(<<>>)
EmptyList == List(<<>>)

Keys(d) == {d.items[i].k : i \in 1..Len(d.items)}
Has(d, key) == key \in Keys(d)
Item(d, key) == d.items[CHOOSE i \in 1..Len(d.items) : d.items[i].k = key].v
Get(d, key, default) == IF Has(d, key) THEN Item(d, key) ELSE default
UrlStr(doc, frag) == [ty |-> "str", doc |-> doc, frag |-> frag]
Ref(doc, frag) == Dict(<<KV("$ref", UrlStr(doc, frag))>>)

isinstance_dict(v) == v.ty = "dict"

is_ref(spec) == isinstance_dict(spec) /\ Has(spec, "$ref")

(***************************************************************************)
(* The frame stack.                                                        *)
(***************************************************************************)
RecursionLimit == 16

Top == stack[Len(stack)]
Popped == SubSeq(stack, 1, Len(stack) - 1)
Running(fn, pc) ==
    /\ status = "running"
    /\ exc = "none"
    /\ stack # <<>>
    /\ Top.fn = fn
    /\ Top.pc = pc
Goto(f, pc) == [f EXCEPT !.pc = pc]
Replaced(f) == [stack EXCEPT ![Len(stack)] = f]
Called(f, callee) == Append(Replaced(f), callee)
AfterReturn(stk) == IF stk = <<>> THEN "returned" ELSE status
Frames(fn) == {i \in 1..Len(stack) : stack[i].fn = fn}

(***************************************************************************)
(* The resolver (jsonschema.RefResolver behind ResolverManager).           *)
(***************************************************************************)
resolution_scope == scopes[Len(scopes)]
urljoin(scope, ref) == <<IF ref[1] = "" THEN scope ELSE ref[1], ref[2]>>
push_scope(url) == Append(scopes, url[1])
pop_scope == SubSeq(scopes, 1, Len(scopes) - 1)

(***************************************************************************)
(* Dereferencer.dereference                                                *)
(***************************************************************************)
\* item, ref and target are the locals of the call; scopes0 is history: the
\* scope stack the call was entered with.
DerefFrame(item) ==
    [fn |-> "dereference", pc |-> "start", item |-> item, ref |-> <<>>,
     target |-> None, scopes0 |-> scopes]
InScope(f) == f.fn = "dereference" /\ f.pc \in {"resolved", "recursing"}

\* lines 30-35: the identity on None and on what is no reference; else the
\* reference is resolved against the resolution scope and its scope pushed.
dereference_start ==
    /\ Running("dereference", "start")
    /\ LET item == Top.item
       IN IF item = None \/ ~is_ref(item)
          THEN /\ stack' = Popped
               /\ ret' = <<item>>
               /\ status' = AfterReturn(Popped)
               /\ UNCHANGED <<scopes, exc>>
          ELSE LET ref == <<Item(item, "$ref").doc, Item(item, "$ref").frag>>
                   url == urljoin(resolution_scope, ref)
               IN IF url \in DOMAIN store
                  THEN /\ scopes' = push_scope(url)
                       /\ stack' = Replaced([Goto(Top, "resolved") EXCEPT
                                                 !.ref = ref, !.target = store[url]])
                       /\ UNCHANGED <<ret, status, exc>>
                  ELSE /\ exc' = "RefResolutionError"
                       /\ UNCHANGED <<stack, ret, scopes, status>>
    /\ UNCHANGED <<arg, mode, store, seen_ids, errors, raised, visited, last>>

\* lines 36-38: a target that is a reference is dereferenced in turn, inside
\* the scope of this one; any other target is returned and the scope popped.
dereference_resolved ==
    /\ Running("dereference", "resolved")
    /\ LET target == Top.target
       IN IF is_ref(target)
          THEN IF Len(stack) < RecursionLimit
               THEN /\ stack' = Called(Goto(Top, "recursing"), DerefFrame(target))
                    /\ UNCHANGED <<ret, scopes, status, exc>>
               ELSE /\ exc' = "RecursionError"
                    /\ UNCHANGED <<stack, ret, scopes, status>>
          ELSE /\ stack' = Popped
               /\ scopes' = pop_scope
               /\ ret' = <<target>>
               /\ status' = AfterReturn(Popped)
               /\ UNCHANGED exc
    /\ UNCHANGED <<arg, mode, store, seen_ids, errors, raised, visited, last>>

\* dereference_recursed with the result of the recursive call dropped
\* (`self.dereference(target)` without the assignment).
dereference_recursed_dropped ==
    /\ Running("dereference", "recursing")
    /\ ret # <<>>
    /\ ret' = <<Top.target>>
    /\ stack' = Popped
    /\ scopes' = pop_scope
    /\ status' = AfterReturn(Popped)
    /\ UNCHANGED <<arg, mode, store, seen_ids, errors, exc, raised, visited, last>>

\* lines 37-38: the recursive call has returned; its value is returned and the
\* scope popped.
dereference_recursed ==
    /\ Running("dereference", "recursing")
    /\ ret # <<>>
    /\ LET target == ret[1]
       IN ret' = <<target>>
    /\ stack' = Popped
    /\ scopes' = pop_scope
    /\ status' = AfterReturn(Popped)
    /\ UNCHANGED <<arg, mode, store, seen_ids, errors, exc, raised, visited, last>>

\* dereference_raise with the scope popped on the way of a return only (push
\* and pop written around the body without `with`).
dereference_raise_leak ==
    /\ status = "running"
    /\ exc # "none"
    /\ stack # <<>>
    /\ Top.fn = "dereference"
    /\ stack' = Popped
    /\ status' = IF Popped = <<>> THEN "failed" ELSE status
    /\ UNCHANGED <<arg, mode, store, ret, scopes, seen_ids, errors, exc, raised,
                   visited, last>>

\* lines 34-35: an exception leaves the `with` blocks of a dereference call;
\* the scope that call pushed, if any, is popped on the way out.
dereference_raise ==
    /\ status = "running"
    /\ exc # "none"
    /\ stack # <<>>
    /\ Top.fn = "dereference"
    /\ stack' = Popped
    /\ scopes' = IF InScope(Top) THEN pop_scope ELSE scopes
    /\ status' = IF Popped = <<>> THEN "failed" ELSE status
    /\ UNCHANGED <<arg, mode, store, ret, seen_ids, errors, exc, raised, visited, last>>

(***************************************************************************)
(* Errors, and how a generator step ends.                                  *)
(***************************************************************************)
\* line 16 and the decorator on every iter_errors: an error that is no
\* OpenAPIValidationError is turned into one; the others pass through.
wraps_errors(err) ==
    IF err.kind = "ValidationError"
    THEN [err EXCEPT !.kind = "OpenAPIValidationError"]
    ELSE err

DuplicateOperationIDError(operation_id, name, url) ==
    [kind |-> "DuplicateOperationIDError", operation_id |-> operation_id,
     name |-> name, url |-> url]
UnresolvableParameterError(path, name, url) ==
    [kind |-> "UnresolvableParameterError", path |-> path, name |-> name, url |-> url]
ParameterDuplicateError(name) == [kind |-> "ParameterDuplicateError", name |-> name]
ExtraParametersError(extra_properties) ==
    [kind |-> "ExtraParametersError", extra_properties |-> extra_properties]
ValidationError(what) == [kind |-> "ValidationError", what |-> what]

\* What has no part in a generator's step.
Quiet == UNCHANGED <<arg, mode, store, scopes, exc, last>>

\* The step ends without a yield: the stack is now stk.
Advance(stk) ==
    /\ stack' = stk
    /\ UNCHANGED <<errors, status, raised>>

\* Emit with validate pulling the generator to its end before it raises.
Emit_exhausts(err, f) ==
    /\ errors' = Append(errors, wraps_errors(err))
    /\ stack' = Replaced(f)
    /\ UNCHANGED <<status, raised>>

\* lines 47-49 and 57-58: the step ends in `yield err`, the generator going on
\* as frame f when it is next pulled.  iter_errors' consumer takes the error
\* and pulls again; validate raises it and abandons the generators.
Emit(err, f) ==
    /\ errors' = Append(errors, wraps_errors(err))
    /\ IF mode = "validate"
       THEN /\ status' = "raised"
            /\ raised' = <<wraps_errors(err)>>
            /\ stack' = <<>>
       ELSE /\ stack' = Replaced(f)
            /\ UNCHANGED <<status, raised>>

\* A child generator is exhausted: its frame goes, the `for` loop over it ends.
\* The top-level generator exhausted, the call returns.
generator_return ==
    /\ status = "running"
    /\ exc = "none"
    /\ stack # <<>>
    /\ Top.fn # "dereference"
    /\ Top.pc = "end"
    /\ stack' = Popped
    /\ status' = AfterReturn(Popped)
    /\ UNCHANGED <<ret, seen_ids, errors, raised, visited>>
    /\ Quiet

\* generator_raise with the exception caught and yielded as one more Error.
generator_raise_reported ==
    /\ status = "running"
    /\ exc # "none"
    /\ stack # <<>>
    /\ Top.fn # "dereference"
    /\ exc' = "none"
    /\ errors' = Append(errors, [kind |-> exc])
    /\ stack' = Replaced(Goto(Top, "end"))
    /\ UNCHANGED <<arg, mode, store, scopes, last, ret, seen_ids, status, raised, visited>>

\* An exception leaves a generator: no validator catches it, the generator is
\* finished and the exception goes to whoever pulled it.
generator_raise ==
    /\ status = "running"
    /\ exc # "none"
    /\ stack # <<>>
    /\ Top.fn # "dereference"
    /\ stack' = Popped
    /\ status' = IF Popped = <<>> THEN "failed" ELSE status
    /\ UNCHANGED <<ret, seen_ids, errors, raised, visited>>
    /\ Quiet

(***************************************************************************)
(* ValueValidator                                                          *)
(***************************************************************************)
\* The generic schema-conformance engine (OAS31Validator), as far as the
\* documents here need it: the `type` of a schema against a value.
TypeOf(value) ==
    CASE value.ty = "str" -> "string"
      [] value.ty = "int" -> "integer"
      [] value.ty = "bool" -> "boolean"
      [] value.ty = "None" -> "null"
      [] value.ty = "list" -> "array"
      [] OTHER -> "object"
OAS31Validator_iter_errors(schema, value) ==
    IF Has(schema, "type") /\ Item(schema, "type") # Str(TypeOf(value))
    THEN <<ValidationError("type")>>
    ELSE <<>>

ValueFrame(schema, value) ==
    [fn |-> "ValueValidator", pc |-> "iter", schema |-> schema, value |-> value, n |-> 1]

\* lines 342-349
ValueValidator_iter_errors ==
    /\ Running("ValueValidator", "iter")
    /\ LET found == OAS31Validator_iter_errors(Top.schema, Top.value)
       IN IF Top.n <= Len(found)
          THEN Emit(found[Top.n], [Top EXCEPT !.n = @ + 1])
          ELSE Advance(Replaced(Goto(Top, "end")))
    /\ UNCHANGED <<ret, seen_ids, visited>>
    /\ Quiet

(***************************************************************************)
(* SchemaValidator                                                         *)
(***************************************************************************)
SchemaFrame(schema, require_properties) ==
    [fn |-> "SchemaValidator", pc |-> "start", schema |-> schema,
     require_properties |-> require_properties, schema_deref |-> None, i |-> 1]

Range(l) == {l[i] : i \in 1..Len(l)}

\* line 125
SchemaValidator_start ==
    /\ Running("SchemaValidator", "start")
    /\ Advance(Called(Goto(Top, "deref"), DerefFrame(Top.schema)))
    /\ UNCHANGED <<ret, seen_ids, visited>>
    /\ Quiet

\* lines 125-129
SchemaValidator_deref ==
    /\ Running("SchemaValidator", "deref")
    /\ ret # <<>>
    /\ LET schema_deref == ret[1]
           next == IF ~isinstance_dict(schema_deref) THEN "end"
                   ELSE IF Has(schema_deref, "allOf") THEN "allOf"
                   ELSE "required"
       IN Advance(Replaced([Goto(Top, next) EXCEPT !.schema_deref = schema_deref]))
    /\ ret' = <<>>
    /\ UNCHANGED <<seen_ids, visited>>
    /\ Quiet

\* SchemaValidator_allOf with require_properties handed down as it came.
SchemaValidator_allOf_inherit ==
    /\ Running("SchemaValidator", "allOf")
    /\ LET allOf == Item(Top.schema_deref, "allOf").l
       IN IF Top.i <= Len(allOf)
          THEN Advance(Called([Top EXCEPT !.i = @ + 1],
                              SchemaFrame(allOf[Top.i], Top.require_properties)))
          ELSE Advance(Replaced(Goto(Top, "required")))
    /\ UNCHANGED <<ret, seen_ids, visited>>
    /\ Quiet

\* lines 130-135
SchemaValidator_allOf ==
    /\ Running("SchemaValidator", "allOf")
    /\ LET allOf == Item(Top.schema_deref, "allOf").l
       IN IF Top.i <= Len(allOf)
          THEN Advance(Called([Top EXCEPT !.i = @ + 1], SchemaFrame(allOf[Top.i], FALSE)))
          ELSE Advance(Replaced(Goto(Top, "required")))
    /\ UNCHANGED <<ret, seen_ids, visited>>
    /\ Quiet

\* lines 137-145
SchemaValidator_required ==
    /\ Running("SchemaValidator", "required")
    /\ LET required == Get(Top.schema_deref, "required", EmptyList)
           properties == Keys(Get(Top.schema_deref, "properties", EmptyDict))
           extra_properties == Range(required.l) \ properties
       IN IF extra_properties # {} /\ Top.require_properties
          THEN Emit(ExtraParametersError(extra_properties), Goto(Top, "default"))
          ELSE Advance(Replaced(Goto(Top, "default")))
    /\ UNCHANGED <<ret, seen_ids, visited>>
    /\ Quiet

\* lines 147-152
SchemaValidator_default ==
    /\ Running("SchemaValidator", "default")
    /\ LET schema_deref == Top.schema_deref
           default == Item(schema_deref, "default")
           nullable == Get(schema_deref, "nullable", Bool(FALSE))
       IN IF Has(schema_deref, "default") /\ (default # None \/ nullable # Bool(TRUE))
          THEN Advance(Called(Goto(Top, "end"), ValueFrame(schema_deref, default)))
          ELSE Advance(Replaced(Goto(Top, "end")))
    /\ UNCHANGED <<ret, seen_ids, visited>>
    /\ Quiet

(***************************************************************************)
(* ParameterValidator                                                      *)
(***************************************************************************)
ParameterFrame(parameter) ==
    [fn |-> "ParameterValidator", pc |-> "start", parameter |-> parameter]

\* lines 316-318
ParameterValidator_start ==
    /\ Running("ParameterValidator", "start")
    /\ IF Has(Top.parameter, "schema")
       THEN Advance(Called(Goto(Top, "schema"), DerefFrame(Item(Top.parameter, "schema"))))
       ELSE Advance(Replaced(Goto(Top, "default")))
    /\ UNCHANGED <<ret, seen_ids, visited>>
    /\ Quiet

\* lines 318-320
ParameterValidator_schema ==
    /\ Running("ParameterValidator", "schema")
    /\ ret # <<>>
    /\ LET schema_deref == ret[1]
       IN Advance(Called(Goto(Top, "default"), SchemaFrame(schema_deref, TRUE)))
    /\ ret' = <<>>
    /\ UNCHANGED <<seen_ids, visited>>
    /\ Quiet

\* lines 322-327
ParameterValidator_default ==
    /\ Running("ParameterValidator", "default")
    /\ LET parameter == Top.parameter
           default == Item(parameter, "default")
       IN IF Has(parameter, "default") /\ default # None
          THEN Advance(Called(Goto(Top, "end"), ValueFrame(parameter, default)))
          ELSE Advance(Replaced(Goto(Top, "end")))
    /\ UNCHANGED <<ret, seen_ids, visited>>
    /\ Quiet

(***************************************************************************)
(* ParametersValidator                                                     *)
(***************************************************************************)
ParametersFrame(parameters) ==
    [fn |-> "ParametersValidator", pc |-> "loop", parameters |-> parameters,
     i |-> 1, seen |-> {}, parameter_deref |-> None]

\* lines 292-294
ParametersValidator_loop ==
    /\ Running("ParametersValidator", "loop")
    /\ IF Top.i <= Len(Top.parameters.l)
       THEN Advance(Called(Goto(Top, "deref"), DerefFrame(Top.parameters.l[Top.i])))
       ELSE Advance(Replaced(Goto(Top, "end")))
    /\ UNCHANGED <<ret, seen_ids, visited>>
    /\ Quiet

\* lines 294-296
ParametersValidator_deref ==
    /\ Running("ParametersValidator", "deref")
    /\ ret # <<>>
    /\ LET parameter_deref == ret[1]
       IN Advance(Called([Goto(Top, "key") EXCEPT !.parameter_deref = parameter_deref],
                         ParameterFrame(parameter_deref)))
    /\ ret' = <<>>
    /\ UNCHANGED <<seen_ids, visited>>
    /\ Quiet

ParameterKey(parameter_deref) ==
    <<Item(parameter_deref, "name"), Item(parameter_deref, "in")>>

\* ParametersValidator_key with the name alone as the key.
ParametersValidator_key_by_name ==
    /\ Running("ParametersValidator", "key")
    /\ LET key == ParameterKey(Top.parameter_deref)
       IN IF \E s \in Top.seen : s[1] = key[1]
          THEN Emit(ParameterDuplicateError(Item(Top.parameter_deref, "name")),
                    Goto(Top, "add"))
          ELSE Advance(Replaced(Goto(Top, "add")))
    /\ UNCHANGED <<ret, seen_ids, visited>>
    /\ Quiet

\* lines 298-302
ParametersValidator_key ==
    /\ Running("ParametersValidator", "key")
    /\ LET key == ParameterKey(Top.parameter_deref)
       IN IF key \in Top.seen
          THEN Emit(ParameterDuplicateError(Item(Top.parameter_deref, "name")),
                    Goto(Top, "add"))
          ELSE Advance(Replaced(Goto(Top, "add")))
    /\ UNCHANGED <<ret, seen_ids, visited>>
    /\ Quiet

\* line 303
ParametersValidator_add ==
    /\ Running("ParametersValidator", "add")
    /\ LET key == ParameterKey(Top.parameter_deref)
       IN Advance(Replaced([Goto(Top, "loop") EXCEPT
                                !.seen = @ \cup {key}, !.i = @ + 1]))
    /\ UNCHANGED <<ret, seen_ids, visited>>
    /\ Quiet

(***************************************************************************)
(* OperationValidator                                                      *)
(***************************************************************************)
OperationFrame(url, name, operation, path_parameters) ==
    [fn |-> "OperationValidator", pc |-> "start", url |-> url, name |-> name,
     operation |-> operation, path_parameters |-> path_parameters,
     operation_deref |-> None, operation_id |-> None, parameters |-> EmptyList,
     k |-> 1, all_params |-> {}, j |-> 1]

\* The text of the url templates: TLA+ strings have no characters to index, so
\* each url is given with its pieces, a brace being a piece of its own.
Chars(url) ==
    CASE url = "/items" -> <<"/items">>
      [] url = "/items/{id}" -> <<"/items/", "{", "id", "}">>
      [] url = "/{id}/{q}" -> <<"/", "{", "id", "}", "/", "{", "q", "}">>
      [] url = "/{id}/{id}" -> <<"/", "{", "id", "}", "/", "{", "id", "}">>
      [] url = "/{{id}}" -> <<"/", "{", "{", "id", "}", "}">>
      [] url = "/{}" -> <<"/", "{", "}">>

\* string.Formatter().parse, item[1] of each item it gives: the field name of
\* each replacement field ('' for "{}"), None for literal text that no field
\* follows; "{{" and "}}" are literal braces.
RECURSIVE formatter_parse(_)
formatter_parse(text) ==
    IF text = <<>> THEN <<>>
    ELSE IF Len(text) >= 2 /\ text[1] \in {"{", "}"} /\ text[2] = text[1]
    THEN <<None>> \o formatter_parse(SubSeq(text, 3, Len(text)))
    ELSE IF text[1] = "{"
    THEN LET close == CHOOSE c \in 2..Len(text) :
                          text[c] = "}" /\ \A b \in 2..(c - 1) : text[b] # "}"
             field_name == IF close = 2 THEN "" ELSE text[2]
         IN <<Str(field_name)>> \o formatter_parse(SubSeq(text, close + 1, Len(text)))
    ELSE IF Len(text) = 1 THEN <<None>>
    ELSE formatter_parse(Tail(text))

\* filter(None, ...): what is falsy goes
Truthy(v) == v # None /\ v # Str("")

\* lines 276-279
_get_path_params_from_url(url) == SelectSeq(formatter_parse(Chars(url)), Truthy)

\* line 242: `path_parameters or []`
OrEmptyList(v) == IF v = None \/ v = EmptyList THEN EmptyList ELSE v

\* lines 242-243
OperationValidator_start ==
    /\ Running("OperationValidator", "start")
    /\ Advance(Called([Goto(Top, "deref") EXCEPT
                           !.path_parameters = OrEmptyList(Top.path_parameters)],
                      DerefFrame(Top.operation)))
    /\ UNCHANGED <<ret, seen_ids, visited>>
    /\ Quiet

InRegistry(operation_id, registry) ==
    \E n \in 1..Len(registry) : registry[n] = operation_id

\* OperationValidator_deref without `operation_id is not None`.
OperationValidator_deref_none_collides ==
    /\ Running("OperationValidator", "deref")
    /\ ret # <<>>
    /\ LET operation_deref == ret[1]
           operation_id == Get(operation_deref, "operationId", None)
           f == [Goto(Top, "append") EXCEPT !.operation_deref = operation_deref,
                                            !.operation_id = operation_id]
       IN /\ IF InRegistry(operation_id, seen_ids)
             THEN Emit(DuplicateOperationIDError(operation_id, Top.name, Top.url), f)
             ELSE Advance(Replaced(f))
          /\ visited' = Append(visited, [url |-> Top.url, name |-> Top.name,
                                         operation_id |-> operation_id])
    /\ ret' = <<>>
    /\ UNCHANGED seen_ids
    /\ Quiet

\* lines 243-250
OperationValidator_deref ==
    /\ Running("OperationValidator", "deref")
    /\ ret # <<>>
    /\ LET operation_deref == ret[1]
           operation_id == Get(operation_deref, "operationId", None)
           f == [Goto(Top, "append") EXCEPT !.operation_deref = operation_deref,
                                            !.operation_id = operation_id]
       IN /\ IF operation_id # None /\ InRegistry(operation_id, seen_ids)
             THEN Emit(DuplicateOperationIDError(operation_id, Top.name, Top.url), f)
             ELSE Advance(Replaced(f))
          /\ visited' = Append(visited, [url |-> Top.url, name |-> Top.name,
                                         operation_id |-> operation_id])
    /\ ret' = <<>>
    /\ UNCHANGED seen_ids
    /\ Quiet

\* lines 251-255
OperationValidator_append ==
    /\ Running("OperationValidator", "append")
    /\ seen_ids' = Append(seen_ids, Top.operation_id)
    /\ LET parameters == Get(Top.operation_deref, "parameters", EmptyList)
       IN Advance(Called([Goto(Top, "params") EXCEPT !.parameters = parameters],
                         ParametersFrame(parameters)))
    /\ UNCHANGED <<ret, visited>>
    /\ Quiet

\* lines 257-260 and 270-272: the path-level parameters, then the operation's
OperationValidator_params ==
    /\ Running("OperationValidator", "params")
    /\ LET params == Top.path_parameters.l \o Top.parameters.l
       IN IF Top.k <= Len(params)
          THEN Advance(Called(Goto(Top, "param"), DerefFrame(params[Top.k])))
          ELSE Advance(Replaced(Goto(Top, "url")))
    /\ UNCHANGED <<ret, seen_ids, visited>>
    /\ Quiet

\* _get_path_param_names without the test of `in`.
_get_path_param_names_any_in(param_deref) == {Item(param_deref, "name")}

\* lines 272-274
_get_path_param_names(param_deref) ==
    IF Item(param_deref, "in") = Str("path") THEN {Item(param_deref, "name")} ELSE {}

OperationValidator_param ==
    /\ Running("OperationValidator", "param")
    /\ ret # <<>>
    /\ LET param_deref == ret[1]
       IN Advance(Replaced([Goto(Top, "params") EXCEPT
                                !.all_params = @ \cup _get_path_param_names(param_deref),
                                !.k = @ + 1]))
    /\ ret' = <<>>
    /\ UNCHANGED <<seen_ids, visited>>
    /\ Quiet

\* lines 262-268
OperationValidator_url ==
    /\ Running("OperationValidator", "url")
    /\ LET paths == _get_path_params_from_url(Top.url)
       IN IF Top.j <= Len(paths)
          THEN LET path == paths[Top.j]
                   f == [Top EXCEPT !.j = @ + 1]
               IN IF path \notin Top.all_params
                  THEN Emit(UnresolvableParameterError(path, Top.name, Top.url), f)
                  ELSE Advance(Replaced(f))
          ELSE Advance(Replaced(Goto(Top, "end")))
    /\ UNCHANGED <<ret, seen_ids, visited>>
    /\ Quiet

(***************************************************************************)
(* PathItemValidator, PathValidator, PathsValidator                        *)
(***************************************************************************)
OPERATIONS == {"get", "put", "post", "delete", "options", "head", "patch", "trace"}

PathItemFrame(url, path_item) ==
    [fn |-> "PathItemValidator", pc |-> "start", url |-> url, path_item |-> path_item,
     parameters |-> EmptyList, i |-> 1]

\* line 211
PathItemValidator_start ==
    /\ Running("PathItemValidator", "start")
    /\ Advance(Called(Goto(Top, "deref"), DerefFrame(Top.path_item)))
    /\ UNCHANGED <<ret, seen_ids, visited>>
    /\ Quiet

\* lines 211-215
PathItemValidator_deref ==
    /\ Running("PathItemValidator", "deref")
    /\ ret # <<>>
    /\ LET path_item_deref == ret[1]
           parameters == Get(path_item_deref, "parameters", EmptyList)
       IN Advance(Called([Goto(Top, "loop") EXCEPT !.parameters = parameters],
                         ParametersFrame(parameters)))
    /\ ret' = <<>>
    /\ UNCHANGED <<seen_ids, visited>>
    /\ Quiet

\* lines 217-223: the items of path_item, the argument
PathItemValidator_loop ==
    /\ Running("PathItemValidator", "loop")
    /\ LET items == Top.path_item.items
           f == [Top EXCEPT !.i = @ + 1]
       IN IF Top.i <= Len(items)
          THEN IF items[Top.i].k \notin OPERATIONS
               THEN Advance(Replaced(f))
               ELSE Advance(Called(f, OperationFrame(Top.url, items[Top.i].k,
                                                     items[Top.i].v, Top.parameters)))
          ELSE Advance(Replaced(Goto(Top, "end")))
    /\ UNCHANGED <<ret, seen_ids, visited>>
    /\ Quiet

PathFrame(url, path_item) ==
    [fn |-> "PathValidator", pc |-> "start", url |-> url, path_item |-> path_item]

\* line 187
PathValidator_start ==
    /\ Running("PathValidator", "start")
    /\ Advance(Called(Goto(Top, "deref"), DerefFrame(Top.path_item)))
    /\ UNCHANGED <<ret, seen_ids, visited>>
    /\ Quiet

\* lines 187-190
PathValidator_deref ==
    /\ Running("PathValidator", "deref")
    /\ ret # <<>>
    /\ LET path_item_deref == ret[1]
       IN Advance(Called(Goto(Top, "end"), PathItemFrame(Top.url, path_item_deref)))
    /\ ret' = <<>>
    /\ UNCHANGED <<seen_ids, visited>>
    /\ Quiet

\* PathsValidator_init with one list for every PathsValidator made without a
\* registry (a mutable default argument).
PathsValidator_init_shared(operation_ids_registry) ==
    IF operation_ids_registry = None THEN seen_ids ELSE operation_ids_registry.l

\* lines 160-163: the registry handed in, a new empty list when there is none
PathsValidator_init(operation_ids_registry) ==
    IF operation_ids_registry = None THEN <<>> ELSE operation_ids_registry.l

PathsFrame(paths) ==
    [fn |-> "PathsValidator", pc |-> "start", paths |-> paths, items |-> <<>>, i |-> 1]

\* line 167
PathsValidator_start ==
    /\ Running("PathsValidator", "start")
    /\ Advance(Called(Goto(Top, "deref"), DerefFrame(Top.paths)))
    /\ UNCHANGED <<ret, seen_ids, visited>>
    /\ Quiet

\* lines 167-168
PathsValidator_deref ==
    /\ Running("PathsValidator", "deref")
    /\ ret # <<>>
    /\ LET paths_deref == ret[1]
       IN Advance(Replaced([Goto(Top, "loop") EXCEPT !.items = paths_deref.items]))
    /\ ret' = <<>>
    /\ UNCHANGED <<seen_ids, visited>>
    /\ Quiet

\* lines 168-170
PathsValidator_loop ==
    /\ Running("PathsValidator", "loop")
    /\ IF Top.i <= Len(Top.items)
       THEN Advance(Called([Top EXCEPT !.i = @ + 1],
                           PathFrame(Top.items[Top.i].k, Top.items[Top.i].v)))
       ELSE Advance(Replaced(Goto(Top, "end")))
    /\ UNCHANGED <<ret, seen_ids, visited>>
    /\ Quiet

(***************************************************************************)
(* ComponentsValidator, SchemasValidator                                   *)
(***************************************************************************)
ComponentsFrame(components) ==
    [fn |-> "ComponentsValidator", pc |-> "start", components |-> components]

\* line 92
ComponentsValidator_start ==
    /\ Running("ComponentsValidator", "start")
    /\ Advance(Called(Goto(Top, "deref"), DerefFrame(Top.components)))
    /\ UNCHANGED <<ret, seen_ids, visited>>
    /\ Quiet

SchemasFrame(schemas) ==
    [fn |-> "SchemasValidator", pc |-> "start", schemas |-> schemas, items |-> <<>>,
     i |-> 1]

\* lines 92-96
ComponentsValidator_deref ==
    /\ Running("ComponentsValidator", "deref")
    /\ ret # <<>>
    /\ LET components_deref == ret[1]
           schemas == Get(components_deref, "schemas", EmptyDict)
       IN Advance(Called(Goto(Top, "end"), SchemasFrame(schemas)))
    /\ ret' = <<>>
    /\ UNCHANGED <<seen_ids, visited>>
    /\ Quiet

\* line 109
SchemasValidator_start ==
    /\ Running("SchemasValidator", "start")
    /\ Advance(Called(Goto(Top, "deref"), DerefFrame(Top.schemas)))
    /\ UNCHANGED <<ret, seen_ids, visited>>
    /\ Quiet

\* lines 109-110
SchemasValidator_deref ==
    /\ Running("SchemasValidator", "deref")
    /\ ret # <<>>
    /\ LET schemas_deref == ret[1]
       IN Advance(Replaced([Goto(Top, "loop") EXCEPT !.items = schemas_deref.items]))
    /\ ret' = <<>>
    /\ UNCHANGED <<seen_ids, visited>>
    /\ Quiet

\* lines 110-112
SchemasValidator_loop ==
    /\ Running("SchemasValidator", "loop")
    /\ IF Top.i <= Len(Top.items)
       THEN Advance(Called([Top EXCEPT !.i = @ + 1],
                           SchemaFrame(Top.items[Top.i].v, TRUE)))
       ELSE Advance(Replaced(Goto(Top, "end")))
    /\ UNCHANGED <<ret, seen_ids, visited>>
    /\ Quiet

(***************************************************************************)
(* SpecValidator                                                           *)
(***************************************************************************)
\* The validator the factory creates: the document against the OpenAPI
\* schema, as far as the documents here need it: `openapi` and `info` are
\* required.
validator_iter_errors(spec) ==
    SelectSeq(<<ValidationError("openapi"), ValidationError("info")>>,
              LAMBDA e : ~Has(spec, e.what))

SpecFrame(spec) == [fn |-> "SpecValidator", pc |-> "start", spec |-> spec, n |-> 1]

\* lines 53-56: the resolver of this pass, its scope the url of the document
SpecValidator_start ==
    /\ Running("SpecValidator", "start")
    /\ scopes' = <<arg.spec_url>>
    /\ store' = arg.store
    /\ Advance(Replaced(Goto(Top, "validator")))
    /\ UNCHANGED <<arg, mode, ret, seen_ids, exc, visited, last>>

\* lines 57-58
SpecValidator_validator ==
    /\ Running("SpecValidator", "validator")
    /\ LET found == validator_iter_errors(Top.spec)
       IN IF Top.n <= Len(found)
          THEN Emit(found[Top.n], [Top EXCEPT !.n = @ + 1])
          ELSE Advance(Replaced(Goto(Top, "paths")))
    /\ UNCHANGED <<ret, seen_ids, visited>>
    /\ Quiet

\* lines 60-62 and 78-79: a PathsValidator made without a registry
SpecValidator_paths ==
    /\ Running("SpecValidator", "paths")
    /\ LET paths == Get(Top.spec, "paths", EmptyDict)
       IN Advance(Called(Goto(Top, "components"), PathsFrame(paths)))
    /\ seen_ids' = PathsValidator_init(None)
    /\ UNCHANGED <<ret, visited>>
    /\ Quiet

\* lines 64-66 and 81-82
SpecValidator_components ==
    /\ Running("SpecValidator", "components")
    /\ LET components == Get(Top.spec, "components", EmptyDict)
       IN Advance(Called(Goto(Top, "end"), ComponentsFrame(components)))
    /\ UNCHANGED <<ret, seen_ids, visited>>
    /\ Quiet

NoPass == [mode |-> "none"]

(***************************************************************************)
(* The pieces documents are made of, and what the resolver finds.          *)
(***************************************************************************)
SeqsUpTo(S, n) == UNION {[1..m -> S] : m \in 0..n}
Opt(key, present, v) == IF present THEN <<KV(key, v)>> ELSE <<>>
OptList(key, l) == Opt(key, l # <<>>, List(l))

Param(name, in) == Dict(<<KV("name", Str(name)), KV("in", Str(in))>>)
Schema(required, properties) ==
    Dict(OptList("required", required)
         \o Opt("properties", properties # <<>>,
                Dict([n \in 1..Len(properties) |-> KV(properties[n], EmptyDict)])))
With(d, key, v) == Dict(Append(d.items, KV(key, v)))
Operation(operation_id, parameters) ==
    Dict(Opt("operationId", operation_id # "absent",
             IF operation_id = "null" THEN None ELSE Str(operation_id))
         \o OptList("parameters", parameters))

SchemaOk == Schema(<<"a">>, <<"a">>)
SchemaExtra == Schema(<<"a", "b">>, <<"a">>)
SchemaRequired == Schema(<<"b">>, <<>>)
SchemaBadDefault == Dict(<<KV("type", Str("string")), KV("default", Int(1))>>)
SchemaNullable ==
    Dict(<<KV("type", Str("string")), KV("nullable", Bool(TRUE)), KV("default", None)>>)
SchemaComposed == With(SchemaExtra, "allOf", List(<<SchemaRequired, SchemaBadDefault>>))

\* The document at "" and the document at "ext" the references lead to.
Library ==
    (<<"", "IdPath">> :> Param("id", "path"))
    @@ (<<"", "Chain">> :> Ref("ext", "IdPath"))
    @@ (<<"ext", "IdPath">> :> Ref("", "Local"))
    @@ (<<"ext", "Local">> :> Param("id", "path"))
    @@ (<<"", "Strict">> :> SchemaRequired)
    @@ (<<"", "Composed">> :> Ref("ext", "Composed"))
    @@ (<<"ext", "Composed">> :> With(SchemaOk, "allOf", List(<<Ref("", "Strict")>>)))
    @@ (<<"ext", "Strict">> :> SchemaExtra)
    @@ (<<"", "Loop">> :> Ref("", "Pool"))
    @@ (<<"", "Pool">> :> Ref("", "Loop"))
    @@ (<<"", "Op">> :> Operation("listItems", <<>>))
    @@ (<<"", "Item">> :> Dict(<<KV("get", Operation("getItem", <<>>))>>))
    @@ (<<"", "Paths">> :>
            Dict(<<KV("/items", Dict(<<KV("get", Ref("", "Op")),
                                       KV("post", Ref("", "Op"))>>))>>))

(***************************************************************************)
(* ParametersValidator.iter_errors called on its own.                      *)
(***************************************************************************)
MaxParameters == 3

ParameterPool ==
    { Param("id", "path"), Param("id", "query"), Param("q", "query"),
      Ref("", "IdPath"), Ref("", "Chain"), Ref("", "missing"),
      With(Param("q", "query"), "schema", SchemaComposed),
      With(With(Param("id", "path"), "type", Str("string")), "default", Int(1)) }

InitWith(a, m, contents) ==
    /\ arg = a
    /\ mode = m
    /\ store = contents
    /\ scopes = <<"">>
    /\ ret = <<>>
    /\ seen_ids = PathsValidator_init(None)
    /\ errors = <<>>
    /\ status = "running"
    /\ exc = "none"
    /\ raised = <<>>
    /\ visited = <<>>
    /\ last = NoPass

InitParameters ==
    \E parameters \in SeqsUpTo(ParameterPool, MaxParameters) :
        /\ InitWith(List(parameters), "ParametersValidator", Library)
        /\ stack = <<ParametersFrame(arg)>>

DereferencerNext ==
    \/ dereference_start
    \/ dereference_resolved
    \/ dereference_recursed
    \/ dereference_raise

SchemaNext ==
    \/ generator_return
    \/ generator_raise
    \/ ValueValidator_iter_errors
    \/ SchemaValidator_start
    \/ SchemaValidator_deref
    \/ SchemaValidator_allOf
    \/ SchemaValidator_required
    \/ SchemaValidator_default

ParametersNext ==
    \/ ParameterValidator_start
    \/ ParameterValidator_schema
    \/ ParameterValidator_default
    \/ ParametersValidator_loop
    \/ ParametersValidator_deref
    \/ ParametersValidator_key
    \/ ParametersValidator_add

NextParameters == DereferencerNext \/ SchemaNext \/ ParametersNext

SpecParameters == InitParameters /\ [][NextParameters]_vars

(***************************************************************************)
(* SchemaValidator.iter_errors(schema) called on its own, require_         *)
(* properties left at its default.                                         *)
(***************************************************************************)
MaxAllOfDepth == 2

PlainSchemas ==
    { EmptyDict, SchemaOk, SchemaExtra, SchemaRequired, SchemaBadDefault,
      SchemaNullable, Bool(TRUE), Ref("", "Strict"), Ref("", "Composed"),
      Ref("", "missing") }
ComposingSchemas == {EmptyDict, SchemaOk, SchemaExtra, SchemaRequired}

RECURSIVE SchemasOfDepth(_)
SchemasOfDepth(depth) ==
    IF depth = 0 THEN PlainSchemas
    ELSE SchemasOfDepth(depth - 1)
         \cup { With(s, "allOf", List(<<member>>)) :
                    s \in ComposingSchemas, member \in SchemasOfDepth(depth - 1) }
         \cup { With(s, "allOf", List(<<m1, m2>>)) :
                    s \in ComposingSchemas, m1 \in ComposingSchemas,
                    m2 \in ComposingSchemas }

InitSchema ==
    \E schema \in SchemasOfDepth(MaxAllOfDepth) :
        /\ InitWith(schema, "SchemaValidator", Library)
        /\ stack = <<SchemaFrame(arg, TRUE)>>

NextSchema == DereferencerNext \/ SchemaNext

SpecSchema == InitSchema /\ [][NextSchema]_vars

(***************************************************************************)
(* PathsValidator(dereferencer).iter_errors(paths) called on its own: one  *)
(* pass over `paths`, with the registry of a PathsValidator just made.     *)
(* Two families of `paths`: operations that differ in their operationId    *)
(* under two urls, and one operation under each url template with          *)
(* parameters declared at the path item and at the operation.              *)
(***************************************************************************)
MaxDeclared == 2

OperationsById ==
    {Operation(id, <<>>) : id \in {"absent", "null", "listItems", "getItem"}}
        \cup {Ref("", "Op")}
PathItemsById ==
    { Dict(<<KV("summary", Str("items"))>> \o Opt("get", get # None, get)
             \o Opt("post", post # None, post)) :
          get \in OperationsById \cup {None}, post \in OperationsById \cup {None} }
        \cup {Ref("", "Item"), Ref("", "missing")}
PathsById ==
    { Dict(<<KV("/items", first)>>) : first \in PathItemsById }
        \cup { Dict(<<KV("/items", first), KV("/items/{id}", second)>>) :
                   first \in PathItemsById, second \in PathItemsById }
        \cup {EmptyDict, Ref("", "Paths")}

UrlTemplates == {"/items", "/items/{id}", "/{id}/{q}", "/{id}/{id}", "/{{id}}", "/{}"}
DeclaredPool == {Param("id", "path"), Param("id", "query"), Ref("", "Chain")}
PathsByParameters ==
    { Dict(<<KV(url, Dict(OptList("parameters", path_level)
                          \o <<KV("get", Operation("absent", operation_level))>>))>>) :
          url \in UrlTemplates,
          path_level \in SeqsUpTo(DeclaredPool, MaxDeclared),
          operation_level \in SeqsUpTo(DeclaredPool, MaxDeclared) }

InitPaths ==
    \E paths \in PathsById \cup PathsByParameters :
        /\ InitWith(paths, "PathsValidator", Library)
        /\ stack = <<PathsFrame(arg)>>

PathsNext ==
    \/ OperationValidator_start
    \/ OperationValidator_deref
    \/ OperationValidator_append
    \/ OperationValidator_params
    \/ OperationValidator_param
    \/ OperationValidator_url
    \/ PathItemValidator_start
    \/ PathItemValidator_deref
    \/ PathItemValidator_loop
    \/ PathValidator_start
    \/ PathValidator_deref
    \/ PathsValidator_start
    \/ PathsValidator_deref
    \/ PathsValidator_loop

NextPaths ==
    \/ DereferencerNext
    \/ generator_return
    \/ generator_raise
    \/ ParametersValidator_loop
    \/ ParametersValidator_deref
    \/ ParametersValidator_key
    \/ ParametersValidator_add
    \/ ParameterValidator_start
    \/ ParameterValidator_default
    \/ PathsNext

SpecPaths == InitPaths /\ [][NextPaths]_vars

(***************************************************************************)
(* A SpecValidator, called again and again: validate and iter_errors, each *)
(* call on one of the documents below, iter_errors pulled to its end.      *)
(***************************************************************************)
Document(spec_url, spec) == [spec_url |-> spec_url, spec |-> spec, store |-> Library]
Root(paths, schemas) ==
    Dict(<<KV("openapi", Str("3.1.0")), KV("info", EmptyDict)>>
         \o Opt("paths", paths # None, paths)
         \o Opt("components", schemas # None, Dict(<<KV("schemas", schemas)>>)))
Without(d, key) == Dict(SelectSeq(d.items, LAMBDA kv : kv.k # key))

PathsClean == Dict(<<KV("/items", Dict(<<KV("get", Operation("listItems", <<>>))>>))>>)
PathsRepeated ==
    Dict(<<KV("/items", Dict(<<KV("get", Operation("listItems", <<>>)),
                               KV("post", Operation("listItems", <<>>))>>)),
           KV("/items/{id}", Dict(<<KV("parameters", List(<<Param("id", "path")>>)),
                                    KV("get", Ref("", "Op")),
                                    KV("post", Operation("absent", <<>>))>>))>>)
PathsParameters ==
    Dict(<<KV("/{id}/{q}",
              Dict(<<KV("parameters", List(<<Param("id", "path"), Ref("", "IdPath")>>)),
                     KV("get", Operation("getItem",
                            <<With(Param("q", "query"), "schema", SchemaComposed),
                              With(With(Param("n", "query"), "type", Str("string")),
                                   "default", Int(1))>>))>>))>>)
SchemasMixed ==
    Dict(<<KV("A", SchemaExtra), KV("B", Ref("", "Composed")), KV("C", SchemaBadDefault),
           KV("D", SchemaNullable), KV("E", Bool(TRUE))>>)

Documents ==
    { Document("", Root(PathsClean, Dict(<<KV("A", SchemaOk)>>))),
      Document("", EmptyDict),
      Document("", Root(PathsRepeated, None)),
      Document("", Root(PathsParameters, None)),
      Document("", Root(None, SchemasMixed)),
      Document("", Root(Dict(<<KV("/items", Ref("", "missing"))>>), SchemasMixed)),
      Document("", Without(Root(PathsRepeated, Dict(<<KV("A", Ref("", "missing"))>>)),
                           "info")),
      Document("", Root(PathsClean, Dict(<<KV("A", SchemaExtra), KV("B", Ref("", "Loop"))>>))),
      Document("ext", Root(Ref("", "Paths"), Dict(<<KV("A", Ref("", "Strict"))>>))),
      Document("", Root(Ref("", "Paths"), Dict(<<KV("A", Ref("", "Strict"))>>))) }

NoDocument == [spec_url |-> "", spec |-> EmptyDict, store |-> Library]

Init ==
    /\ arg = NoDocument
    /\ mode = "none"
    /\ store = Library
    /\ scopes = <<"">>
    /\ stack = <<>>
    /\ ret = <<>>
    /\ seen_ids = <<>>
    /\ errors = <<>>
    /\ status = "idle"
    /\ exc = "none"
    /\ raised = <<>>
    /\ visited = <<>>
    /\ last = NoPass

\* A call of a public method of the SpecValidator, the one before it over.
\* History: the iter_errors pass that has just ended is remembered.
Call(method, document) ==
    /\ status # "running"
    /\ arg' = document
    /\ mode' = method
    /\ stack' = <<SpecFrame(document.spec)>>
    /\ ret' = <<>>
    /\ errors' = <<>>
    /\ status' = "running"
    /\ exc' = "none"
    /\ raised' = <<>>
    /\ visited' = <<>>
    /\ last' = IF mode = "iter_errors"
               THEN [mode |-> mode, arg |-> arg, errors |-> errors, status |-> status,
                     exc |-> exc]
               ELSE last
    /\ UNCHANGED <<store, scopes, seen_ids>>

\* lines 47-49
SpecValidator_validate == \E document \in Documents : Call("validate", document)

\* lines 51-52
SpecValidator_iter_errors == \E document \in Documents : Call("iter_errors", document)

Next ==
    \/ SpecValidator_validate
    \/ SpecValidator_iter_errors
    \/ SpecValidator_start
    \/ SpecValidator_validator
    \/ SpecValidator_paths
    \/ SpecValidator_components
    \/ ComponentsValidator_start
    \/ ComponentsValidator_deref
    \/ SchemasValidator_start
    \/ SchemasValidator_deref
    \/ SchemasValidator_loop
    \/ PathsNext
    \/ ParametersNext
    \/ SchemaNext
    \/ DereferencerNext

Spec == Init /\ [][Next]_vars

(***************************************************************************)
(* Dereferencer.dereference called on its own: the nodes and the resolver  *)
(* contents it is tried on.                                                *)
(***************************************************************************)
Docs == {"", "ext"}
Frags == {"A", "B"}
Urls == Docs \X Frags
Concrete == Dict(<<KV("type", Str("string"))>>)
DerefItems ==
    {None, Str("x"), EmptyList, EmptyDict, Concrete}
        \cup {Ref(d, f) : d \in Docs, f \in Frags \cup {"missing"}}
StoredNodes == {None, Concrete} \cup {Ref(d, f) : d \in Docs, f \in Frags}
Stores == UNION {[D -> StoredNodes] : D \in SUBSET Urls}

InitDeref ==
    /\ arg \in DerefItems
    /\ mode = "dereference"
    /\ store \in Stores
    /\ scopes = <<"">>
    /\ stack = <<DerefFrame(arg)>>
    /\ ret = <<>>
    /\ seen_ids = <<>>
    /\ errors = <<>>
    /\ status = "running"
    /\ exc = "none"
    /\ raised = <<>>
    /\ visited = <<>>
    /\ last = NoPass

SpecDeref == InitDeref /\ [][DereferencerNext]_vars

(***************************************************************************)
(* What following references from a node comes to, stated on the resolver  *)
(* contents alone: the first node that is no reference, or why there is    *)
(* none.  A chain that is still a reference after more hops than there are *)
(* urls has come back to a url it left.                                    *)
(***************************************************************************)
RefOf(node) == <<Item(node, "$ref").doc, Item(node, "$ref").frag>>

RECURSIVE Chase(_, _, _, _)
Chase(contents, node, scope, fuel) ==
    IF ~is_ref(node) THEN [ok |-> TRUE, v |-> node]
    ELSE IF fuel = 0 THEN [ok |-> FALSE, why |-> "circular"]
    ELSE LET url == urljoin(scope, RefOf(node))
         IN IF url \notin DOMAIN contents
            THEN [ok |-> FALSE, why |-> "unresolvable"]
            ELSE Chase(contents, contents[url], url[1], fuel - 1)
ChaseFrom(contents, node, scope) ==
    Chase(contents, node, scope, Cardinality(DOMAIN contents) + 1)

AbsUrl(f) == urljoin(f.scopes0[Len(f.scopes0)], f.ref)

(***************************************************************************)
(* C5: dereferencing a circular chain of references ends in a failure that *)
(* tells the circle, without looping or recursing on and on: no call of    *)
(* dereference follows a url that a call it is nested in is following, and *)
(* the chain never runs into the interpreter's recursion limit.            *)
(***************************************************************************)
C5_CircularTerminates ==
    /\ \A m, n \in Frames("dereference") :
          (m < n /\ InScope(stack[m]) /\ InScope(stack[n]))
              => AbsUrl(stack[m]) # AbsUrl(stack[n])
    /\ exc # "RecursionError"

(***************************************************************************)
(* C6: dereference(node) returns the first node that is no reference on    *)
(* the chain of `$ref` targets from node: node itself when it is None or  *)
(* no reference; and when the chain is finite, acyclic and resolvable the  *)
(* call does return, and what it returns is no reference.                  *)
(***************************************************************************)
C6_DereferenceFirstConcrete ==
    mode = "dereference" =>
        LET c == ChaseFrom(store, arg, "")
        IN /\ status = "returned" =>
                 /\ c.ok
                 /\ ret = <<c.v>>
                 /\ ~is_ref(ret[1])
           /\ ~is_ref(arg) =>
                 /\ status # "failed"
                 /\ status = "returned" => ret = <<arg>>
           /\ c.ok => status # "failed"

C6_Witness ==
    /\ mode = "dereference"
    /\ status = "returned"
    /\ is_ref(arg)
    /\ urljoin("", RefOf(arg)) \in DOMAIN store
    /\ is_ref(store[urljoin("", RefOf(arg))])
    /\ ret = <<Concrete>>

(***************************************************************************)
(* C10: resolution scopes are balanced: when a call of dereference ends,   *)
(* by returning a node or by an exception, nested calls included, the      *)
(* scope stack is what it was when the call began.                         *)
(***************************************************************************)
C10_ScopesBalanced ==
    [][(stack # <<>> /\ Top.fn = "dereference" /\ Len(stack') < Len(stack))
           => scopes' = Top.scopes0]_vars

C10_Witness ==
    /\ mode = "dereference"
    /\ status = "failed"
    /\ exc = "RefResolutionError"
    /\ is_ref(arg)
    /\ urljoin("", RefOf(arg)) \in DOMAIN store
    /\ urljoin("", RefOf(arg))[1] = "ext"
    /\ scopes = <<"">>

OfKind(kind) == SelectSeq(errors, LAMBDA e : e.kind = kind)
IsPrefix(s, t) == Len(s) <= Len(t) /\ SubSeq(t, 1, Len(s)) = s
Resolved(node) == ChaseFrom(store, node, "")
Min(S) == CHOOSE n \in S : \A m \in S : n <= m

(***************************************************************************)
(* C3: ParametersValidator.iter_errors yields, in the order of the list,   *)
(* one ParameterDuplicateError for each parameter whose (name, in) is that *)
(* of an earlier parameter of the list, and none for the first of a pair:  *)
(* the errors yielded so far are the first of those, and all of them when  *)
(* the call has returned.  The list counts as far as its references        *)
(* resolve.                                                                *)
(***************************************************************************)
NameAndIn(parameter) ==
    LET p == Resolved(parameter).v IN <<Item(p, "name"), Item(p, "in")>>
Resolvable(parameters) ==
    LET bad == {n \in 1..Len(parameters) : ~Resolved(parameters[n]).ok}
    IN IF bad = {} THEN Len(parameters) ELSE Min(bad) - 1
Repeats(parameters) ==
    SelectSeq([n \in 1..Resolvable(parameters) |-> n],
              LAMBDA n : \E m \in 1..(n - 1) :
                             NameAndIn(parameters[m]) = NameAndIn(parameters[n]))
DuplicatesOf(parameters) ==
    [r \in 1..Len(Repeats(parameters)) |->
        ParameterDuplicateError(NameAndIn(parameters[Repeats(parameters)[r]])[1])]

C3_ParameterDuplicates ==
    mode = "ParametersValidator" =>
        /\ IsPrefix(OfKind("ParameterDuplicateError"), DuplicatesOf(arg.l))
        /\ status = "returned" =>
               OfKind("ParameterDuplicateError") = DuplicatesOf(arg.l)

\* (id, path) three times, once behind a chain of references: two errors;
\* (id, query) beside them: none.
C3_Witness ==
    /\ mode = "ParametersValidator"
    /\ status = "returned"
    /\ arg = List(<<Param("id", "path"), Ref("", "Chain"), Param("id", "path")>>)
    /\ OfKind("ParameterDuplicateError")
           = <<ParameterDuplicateError(Str("id")), ParameterDuplicateError(Str("id"))>>

(***************************************************************************)
(* C4: SchemaValidator.iter_errors(schema), require_properties left true,  *)
(* yields one ExtraParametersError, naming what is missing, when the       *)
(* `required` of the schema itself names a property its own `properties`   *)
(* lacks, and none otherwise; the members of `allOf`, however deep, add    *)
(* none, whatever their `required` and `properties`.                       *)
(***************************************************************************)
MissingProperties(schema) ==
    IF Resolved(schema).ok /\ isinstance_dict(Resolved(schema).v)
    THEN LET s == Resolved(schema).v
         IN Range(Get(s, "required", EmptyList).l) \ Keys(Get(s, "properties", EmptyDict))
    ELSE {}

C4_ExtraParameters ==
    mode = "SchemaValidator" =>
        /\ IsPrefix(OfKind("ExtraParametersError"),
                    <<ExtraParametersError(MissingProperties(arg))>>)
        /\ OfKind("ExtraParametersError") # <<>> => MissingProperties(arg) # {}
        /\ (status = "returned" /\ MissingProperties(arg) # {}) =>
               OfKind("ExtraParametersError") # <<>>

\* a schema that lacks nothing itself, over a member that does and has a
\* member of its own that does
C4_Witness ==
    /\ mode = "SchemaValidator"
    /\ status = "returned"
    /\ arg = With(SchemaOk, "allOf",
                  List(<<With(SchemaExtra, "allOf", List(<<SchemaRequired>>))>>))
    /\ OfKind("ExtraParametersError") = <<>>

(***************************************************************************)
(* The operations of a `paths` object in the order of the document, each   *)
(* with its url, its method, the operation its value resolves to and the   *)
(* parameters of its path item.                                            *)
(***************************************************************************)
Methods == {"get", "put", "post", "delete", "options", "head", "patch", "trace"}

RECURSIVE Flatten(_)
Flatten(seqs) == IF seqs = <<>> THEN <<>> ELSE Head(seqs) \o Flatten(Tail(seqs))

OperationsOfItem(url, path_item) ==
    LET item == Resolved(path_item).v
        methods == SelectSeq(item.items, LAMBDA kv : kv.k \in Methods)
    IN [n \in 1..Len(methods) |->
           [url |-> url, name |-> methods[n].k,
            operation |-> Resolved(methods[n].v).v,
            path_parameters |-> Get(item, "parameters", EmptyList).l]]
OperationsOf(paths) ==
    LET items == Resolved(paths).v.items
    IN Flatten([n \in 1..Len(items) |-> OperationsOfItem(items[n].k, items[n].v)])

ErrorsAt(kind, url, name) ==
    SelectSeq(errors, LAMBDA e : e.kind = kind /\ e.url = url /\ e.name = name)

(***************************************************************************)
(* C1: in one pass over `paths`, an operation yields one                   *)
(* DuplicateOperationIDError if its operationId is there, is not null and  *)
(* is the operationId of an operation visited before it, under whatever    *)
(* url and method, and none otherwise: none for the first operation with   *)
(* an id, none for operations without one.  The operations visited, when   *)
(* the pass has returned, are those of the document, in its order.         *)
(***************************************************************************)
C1_DuplicateOperationIds ==
    mode = "PathsValidator" =>
        /\ \A n \in 1..Len(visited) :
              LET o == visited[n]
                  repeated == /\ o.operation_id # None
                              /\ \E m \in 1..(n - 1) :
                                     visited[m].operation_id = o.operation_id
              IN ErrorsAt("DuplicateOperationIDError", o.url, o.name)
                     = IF repeated
                       THEN <<DuplicateOperationIDError(o.operation_id, o.name, o.url)>>
                       ELSE <<>>
        /\ \A e \in Range(OfKind("DuplicateOperationIDError")) :
              \E n \in 1..Len(visited) :
                  visited[n].url = e.url /\ visited[n].name = e.name
        /\ status = "returned" =>
              visited = [n \in 1..Len(OperationsOf(arg)) |->
                            LET o == OperationsOf(arg)[n]
                            IN [url |-> o.url, name |-> o.name,
                                operation_id |-> Get(o.operation, "operationId", None)]]

\* four operations read in one pass: listItems, one without an id,
\* listItems again, one more without an id; one error, for the repeat
C1_Witness ==
    /\ mode = "PathsValidator"
    /\ status = "returned"
    /\ Len(visited) = 4
    /\ visited[1].operation_id = Str("listItems")
    /\ visited[2].operation_id = None
    /\ visited[3].operation_id = Str("listItems")
    /\ visited[4].operation_id = None
    /\ OfKind("DuplicateOperationIDError")
           = <<DuplicateOperationIDError(Str("listItems"), "get", "/items/{id}")>>

(***************************************************************************)
(* C2: for every operation under a url template, an                        *)
(* UnresolvableParameterError is yielded for a {name} of the url if and    *)
(* only if name is the name of no `in: path` parameter among those of the  *)
(* path item and those of the operation; a parameter of that name in       *)
(* another place does not count.  One error for each such {name}, in the   *)
(* order of the url.                                                       *)
(***************************************************************************)
\* the names between single braces, in the order of the text
Placeholders(url) ==
    LET text == Chars(url)
        opens(p) == text[p - 1] = "{" /\ (p = 2 \/ text[p - 2] # "{")
        at == SelectSeq([p \in 1..Len(text) |-> p],
                        LAMBDA p : /\ 1 < p /\ p < Len(text)
                                   /\ text[p] \notin {"{", "}"}
                                   /\ opens(p)
                                   /\ text[p + 1] = "}")
    IN [n \in 1..Len(at) |-> text[at[n]]]

DeclaredInPath(parameters) ==
    { Item(Resolved(p).v, "name").s :
          p \in {q \in Range(parameters) : Item(Resolved(q).v, "in") = Str("path")} }

Unresolved(o) ==
    LET declared == DeclaredInPath(o.path_parameters)
                        \cup DeclaredInPath(Get(o.operation, "parameters", EmptyList).l)
        names == SelectSeq(Placeholders(o.url), LAMBDA name : name \notin declared)
    IN [n \in 1..Len(names) |-> UnresolvableParameterError(Str(names[n]), o.name, o.url)]

C2_UnresolvablePathParameters ==
    (mode = "PathsValidator" /\ status = "returned") =>
        /\ \A o \in Range(OperationsOf(arg)) :
              ErrorsAt("UnresolvableParameterError", o.url, o.name) = Unresolved(o)
        /\ \A e \in Range(OfKind("UnresolvableParameterError")) :
              \E o \in Range(OperationsOf(arg)) : o.url = e.url /\ o.name = e.name

\* {id} declared in path at the path item alone, behind references; {q} not
\* declared; a parameter named id in query at the operation
C2_Witness ==
    /\ mode = "PathsValidator"
    /\ status = "returned"
    /\ arg = Dict(<<KV("/{id}/{q}",
                       Dict(<<KV("parameters", List(<<Ref("", "Chain")>>)),
                              KV("get", Operation("absent", <<Param("id", "query")>>))>>))>>)
    /\ OfKind("UnresolvableParameterError")
           = <<UnresolvableParameterError(Str("q"), "get", "/{id}/{q}")>>

Ended == status \in {"returned", "raised", "failed"}
SameDocumentBefore == last.mode = "iter_errors" /\ last.arg = arg

(***************************************************************************)
(* C7: validate raises the first Error iter_errors yields for the document *)
(* and takes no step of the traversal after it: with that Error produced   *)
(* the generators are gone, and nothing moves until the next call.  It     *)
(* returns without raising exactly when iter_errors runs to its end        *)
(* yielding nothing; when iter_errors fails before any Error, so does      *)
(* validate, the same way.                                                 *)
(***************************************************************************)
C7_ValidateFailsFast ==
    /\ [](mode = "validate" =>
            /\ Len(errors) <= 1
            /\ errors # <<>> => (status = "raised" /\ stack = <<>>)
            /\ status = "raised" => (raised = errors /\ errors # <<>>)
            /\ (SameDocumentBefore /\ Ended) =>
                  /\ status = "raised" =>
                        (last.errors # <<>> /\ raised = <<last.errors[1]>>)
                  /\ status = "returned" =>
                        (last.errors = <<>> /\ last.status = "returned")
                  /\ status = "failed" =>
                        (last.errors = <<>> /\ last.status = "failed"
                         /\ last.exc = exc))
    /\ [][status = "raised" =>
             (status' = "running" /\ errors' = <<>> /\ visited' = <<>>)]_vars

\* validate after iter_errors on a document with several Errors: the first
\* of them raised, the registry as it was when it was yielded
C7_Witness ==
    /\ mode = "validate"
    /\ status = "raised"
    /\ SameDocumentBefore
    /\ Len(last.errors) > 1
    /\ raised = <<last.errors[1]>>
    /\ raised[1].kind = "DuplicateOperationIDError"
    /\ Len(seen_ids) = 1

(***************************************************************************)
(* C8: the operation-id registry is new in every call: whatever calls came *)
(* before, abandoned ones among them, an iter_errors pass that has ended   *)
(* has the Errors and the end of the last iter_errors pass on the same     *)
(* document; while the paths are walked the registry holds the ids of the  *)
(* operations of this pass alone, and a DuplicateOperationIDError names an *)
(* id read twice in this pass.                                             *)
(***************************************************************************)
C8_FreshRegistry ==
    /\ (mode = "iter_errors" /\ SameDocumentBefore /\ Ended) =>
           (errors = last.errors /\ status = last.status /\ exc = last.exc)
    /\ Frames("PathsValidator") # {} =>
           /\ Len(seen_ids) <= Len(visited)
           /\ Len(visited) <= Len(seen_ids) + 1
           /\ \A n \in 1..Len(seen_ids) : seen_ids[n] = visited[n].operation_id
    /\ \A e \in Range(OfKind("DuplicateOperationIDError")) :
           Cardinality({n \in 1..Len(visited) :
                            visited[n].operation_id = e.operation_id}) > 1

\* a pass that ends without a DuplicateOperationIDError on a document whose
\* ids the pass before it, on the same document, has left in its registry
C8_Witness ==
    /\ mode = "iter_errors"
    /\ status = "returned"
    /\ SameDocumentBefore
    /\ seen_ids = <<Str("listItems")>>
    /\ errors = <<>>

(***************************************************************************)
(* C9: when a `$ref` fails to resolve the pass aborts there: the failure   *)
(* goes up to the caller through every generator, is no Error of the       *)
(* sequence, and no Error is yielded after it.                             *)
(***************************************************************************)
C9_ResolutionFailureAborts ==
    /\ [](/\ status = "failed" <=> (exc # "none" /\ stack = <<>>)
          /\ \A e \in Range(errors) :
                e.kind \notin {"RefResolutionError", "RecursionError"})
    /\ [][/\ (exc = "none" /\ exc' # "none") =>
                (errors' = errors /\ status' = "running")
          /\ (exc # "none" /\ status = "running") =>
                /\ exc' = exc
                /\ errors' = errors
                /\ seen_ids' = seen_ids
                /\ status' \in {"running", "failed"}
                /\ stack' = Popped]_vars

\* Errors yielded, then a reference that does not resolve: the call has
\* failed and the Errors are those yielded before
C9_Witness ==
    /\ mode = "iter_errors"
    /\ status = "failed"
    /\ exc = "RefResolutionError"
    /\ Len(errors) = 3
    /\ errors[3].kind = "DuplicateOperationIDError"

=============================================================================
